---- MODULE Spec2Model ----
(***************************************************************************)
(* Model of the command-execution engine of rig: CommandRunner.run and the *)
(* retry_on_network_error decorator (src/utils/runner.py) together with    *)
(* the error classes it raises (src/utils/errors.py).                      *)
(*                                                                         *)
(* One behaviour of the model is one call of CommandRunner.run.  Init      *)
(* draws the call's arguments and the facts of the host the call cannot    *)
(* control; the actions are the successive blocks of run().                *)
(***************************************************************************)
EXTENDS Integers, Sequences, FiniteSets, TLC

(***************************************************************************)
(* Bounds of the model.                                                    *)
(***************************************************************************)
MaxLen == 2      \* longest vector enumerated exhaustively over Tokens
MaxLines == 1    \* most lines the child process writes

(***************************************************************************)
(* Program constants.                                                      *)
(***************************************************************************)
max_attempts == 3     \* @retry_on_network_error(max_attempts=3, ...)
backoff_factor == 1   \* @retry_on_network_error(..., backoff_factor=1.0)

(***************************************************************************)
(* The tokens callers build argument vectors from, the exit codes a child  *)
(* can report and the lines it can write.                                  *)
(***************************************************************************)
Tokens == {"apt", "curl", "update", "install", "-qq", "-o", "https://x"}
ExitCodes == {0, 1, 100}
LockLine == "E: Could not get lock /var/lib/dpkg/lock-frontend"
CliWarning == "WARNING: apt does not have a stable CLI interface. Use with caution in scripts."
Lines == {LockLine, CliWarning}
BlankLine == ""

\* vectors the installers pass to run()
BootstrapInstall ==
  <<"apt", "install", "-y", "ca-certificates", "curl", "wget", "gnupg", "lsb-release", "lsof">>
GithubCliInstall == <<"apt", "install", "-y", "gh">>
NeovimDownload ==
  <<"curl", "-L",
    "https://github.com/neovim/neovim/releases/latest/download/nvim-linux-x86_64.tar.gz",
    "-o", "/tmp/nvim.tar.gz">>
CallSites == {BootstrapInstall, GithubCliInstall, NeovimDownload}

\* the vectors a call is made with: the call sites above and every vector of
\* at most MaxLen tokens
Vectors == CallSites \cup UNION {[1..n -> Tokens] : n \in 1..MaxLen}
\* what a child writes: up to MaxLines lines, or an empty line and two lines
Outputs ==
  {<<BlankLine, LockLine, CliWarning>>} \cup UNION {[1..n -> Lines] : n \in 0..MaxLines}

(***************************************************************************)
(* Python values.  An Optional[str] is the empty sequence (None) or a      *)
(* one-element sequence holding the string.                                *)
(***************************************************************************)
None == <<>>
Some(s) == <<s>>
OrEmpty(opt) == IF opt = None THEN "" ELSE opt[1]

(***************************************************************************)
(* str methods used by the runner, computed character by character.        *)
(***************************************************************************)
UpperToLower ==
  [A |-> "a", B |-> "b", C |-> "c", D |-> "d", E |-> "e", F |-> "f", G |-> "g",
   H |-> "h", I |-> "i", J |-> "j", K |-> "k", L |-> "l", M |-> "m", N |-> "n",
   O |-> "o", P |-> "p", Q |-> "q", R |-> "r", S |-> "s", T |-> "t", U |-> "u",
   V |-> "v", W |-> "w", X |-> "x", Y |-> "y", Z |-> "z"]

CharAt(s, i) == SubSeq(s, i, i)

LowerChar(c) == IF c \in DOMAIN UpperToLower THEN UpperToLower[c] ELSE c

\* str.lower(): every character replaced by its lower-case form (the string
\* is split in halves so that the evaluation stays shallow, and v is the
\* value of s, computed once)
RECURSIVE lower(_)
lower(s) ==
  CHOOSE low \in
    {IF Len(v) = 0 THEN ""
     ELSE IF Len(v) = 1 THEN LowerChar(v)
     ELSE lower(SubSeq(v, 1, Len(v) \div 2))
            \o lower(SubSeq(v, Len(v) \div 2 + 1, Len(v))) : v \in {s}} : TRUE

\* needle in hay (h is the value of hay, computed once)
Contains(hay, needle) ==
  \E h \in {hay} :
    \E i \in 1..(Len(h) - Len(needle) + 1) :
       SubSeq(h, i, i + Len(needle) - 1) = needle

\* str.startswith(prefix)
startswith(s, prefix) ==
  /\ Len(s) >= Len(prefix)
  /\ SubSeq(s, 1, Len(prefix)) = prefix

RECURSIVE JoinFrom(_, _, _)
JoinFrom(seq, sep, i) ==
  IF i > Len(seq) THEN ""
  ELSE IF i = Len(seq) THEN seq[i]
  ELSE seq[i] \o sep \o JoinFrom(seq, sep, i + 1)

\* sep.join(seq)
join(seq, sep) == JoinFrom(seq, sep, 1)

\* x in list
InList(x, seq) == \E i \in 1..Len(seq) : seq[i] = x

\* list[i] with a 0-based position i
At(seq, i) == seq[i + 1]

\* list.index(x), a 0-based position
index(seq, x) ==
  (CHOOSE i \in 1..Len(seq) : seq[i] = x /\ \A j \in 1..(i - 1) : seq[j] # x) - 1

\* list.insert(i, x) with a 0-based position i
insert(seq, i, x) == SubSeq(seq, 1, i) \o <<x>> \o SubSeq(seq, i + 1, Len(seq))

(***************************************************************************)
(* CommandRunner._is_network_command                                       *)
(***************************************************************************)
NetworkIndicators == {"curl", "wget", "apt update", "apt-get update"}

is_network_command(command) ==
  LET cmd_str == lower(join(command, " "))
  IN  \E network_indicator \in NetworkIndicators : Contains(cmd_str, network_indicator)

\* next((arg for arg in command if arg.startswith(('http://', 'https://'))), None)
IsUrl(arg) == startswith(arg, "http://") \/ startswith(arg, "https://")

first_url(command) ==
  IF \E i \in 1..Len(command) : IsUrl(command[i])
  THEN Some(command[CHOOSE i \in 1..Len(command) :
                      IsUrl(command[i]) /\ \A j \in 1..(i - 1) : ~IsUrl(command[j])])
  ELSE None

(***************************************************************************)
(* Quiet-mode normalization of apt commands, run() lines 186-216.          *)
(* Positions are 0-based as in the source; NoIdx stands for None.          *)
(***************************************************************************)
NoIdx == 0 - 1
StatusFdOption == "APT::Status-Fd=/dev/null"

\* apt_idx that reports position 0 also for an apt found at position 1
apt_idx_no_offset(command) ==
  IF At(command, 0) = "apt" THEN 0
  ELSE IF Len(command) > 1 /\ At(command, 1) = "apt" THEN 0
  ELSE NoIdx

\* apt_idx that looks at position 0 only
apt_idx_first_only(command) ==
  IF At(command, 0) = "apt" THEN 0 ELSE NoIdx

apt_idx(command) ==
  IF At(command, 0) = "apt" THEN 0
  ELSE IF Len(command) > 1 /\ At(command, 1) = "apt" THEN 1
  ELSE NoIdx

\* lines 199-206: add -qq unless a quiet flag is present
inject_quiet(command, idx) ==
  IF ~InList("-q", command) /\ ~InList("-qq", command) /\ ~InList("-qqq", command)
  THEN IF InList("update", command)
       THEN insert(command, idx + 1, "-qq")
       ELSE IF InList("install", command)
            THEN insert(command, index(command, "install") + 1, "-qq")
            ELSE command
  ELSE command

\* option_idx without the loop that skips the existing flags
option_idx_noskip(command, start) == start

\* lines 211-214: first position at or after start that holds no flag
RECURSIVE option_idx(_, _)
option_idx(command, start) ==
  IF start < Len(command) /\ startswith(At(command, start), "-")
  THEN option_idx(command, start + 1)
  ELSE start

\* inject_status_fd without the test for an -o that is already there
inject_status_fd_unguarded(command, idx) ==
  LET k == option_idx(command, idx + 1)
  IN  insert(insert(command, k, "-o"), k + 1, StatusFdOption)

\* lines 209-216: add -o APT::Status-Fd=/dev/null unless -o is present
inject_status_fd(command, idx) ==
  IF ~InList("-o", command)
  THEN LET k == option_idx(command, idx + 1)
       IN  insert(insert(command, k, "-o"), k + 1, StatusFdOption)
  ELSE command

\* lines 186-216 as one function of the vector
normalize(command) ==
  LET idx == apt_idx(command)
  IN  IF idx # NoIdx
      THEN inject_status_fd(inject_quiet(command, idx), idx)
      ELSE command

(***************************************************************************)
(* CommandRunner._check_sudo_available, as a function of what the two      *)
(* probes did.  p1 is `sudo -n true` (timeout 2s), p2 is `which sudo`      *)
(* (timeout 1s, check=True).                                               *)
(***************************************************************************)
ProbeOutcomes == {"rc0", "rcfail", "timeout", "fnf"}

\* _check_sudo_available with `which sudo` run without check=True
check_sudo_available_unchecked(p1, p2) ==
  IF p1 \in {"timeout", "fnf"} THEN FALSE
  ELSE IF p1 = "rc0" THEN TRUE
  ELSE IF p2 \in {"rc0", "rcfail"} THEN TRUE
  ELSE FALSE

check_sudo_available(p1, p2) ==
  IF p1 \in {"timeout", "fnf"} THEN FALSE          \* except clause
  ELSE IF p1 = "rc0" THEN TRUE                      \* result.returncode == 0
  ELSE IF p2 = "rc0" THEN TRUE                      \* which sudo succeeded
  ELSE FALSE                                        \* except clause

(***************************************************************************)
(* State of one call of CommandRunner.run.                                 *)
(***************************************************************************)
VARIABLES
  heap,            \* the two list objects: "caller" (the list passed in) and
                   \* "local" (the list built by ["sudo"] + command)
  command,         \* which list object the local name `command` is bound to
  orig,            \* the caller's vector as it was when run() was called
  sudo,            \* argument sudo
  check,           \* argument check
  capture_output,  \* argument capture_output
  missing,         \* host: the caller's program is not installed
  pc,              \* position in run()
  probes,          \* host: outcomes of the elevation probes, in order
  console,         \* what was printed on the operator console, in order
  log,             \* what was written to the log sink, in order
  is_apt_command,  \* local is_apt_command
  cmd_str,         \* local cmd_str
  strategy,        \* which branch of the try block executes the command
  net_uses,        \* value of each _is_network_command(command) evaluated
  spawned,         \* vectors of the target processes spawned, in order
  exits,           \* how each spawned target ended, in order
  drained,         \* lines read from the pipe of the target spawned last
  attempt,         \* loop variable of the retry wrapper
  sleeps,          \* delays passed to time.sleep, in order
  last_exception,  \* local last_exception of the retry wrapper
  exc,             \* exception propagating inside run()'s try block
  process,         \* the Popen child: its state and the lines yet to be written
  pipe,            \* raw lines written to the child's stdout pipe and not yet read
  held,            \* a descendant of the child holds the pipe's write end open
  reader,          \* state of the read_output thread
  environ,         \* os.environ, the environment of the engine's own process
  env,             \* local env, the copy handed to the children
  child_envs,      \* environment each target was spawned with, in order
  results,         \* SetupManager.results: (name, result) pairs, in order
  calls,           \* what SetupManager.run called, in order, with how it ended
  selected_options,\* local selected_options of SetupManager.run
  option,          \* position of the loop SetupManager.run is in
  config_file,     \* the shell configuration file: None, or Some(its content)
  returned,        \* the calls of add_to_path made, in order
  outcome          \* what run() returned or raised

vars == <<heap, command, orig, sudo, check, capture_output, missing, pc, probes,
          console, log, is_apt_command, cmd_str, strategy, net_uses, spawned,
          exits, drained, attempt, sleeps, last_exception, exc, outcome,
          process, pipe, held, reader, environ, env, child_envs,
          results, calls, selected_options, option, config_file, returned>>

\* the variables of utils/shell_config.py
shell == <<config_file, returned>>

\* the variables of SetupManager.run
setup == <<results, calls, selected_options, option>>

\* the variables of the streamed branch taken step by step
stream == <<process, pipe, held, reader>>

\* what the call is given and what it finds on the host; no statement of
\* run() assigns to any of these
args == <<orig, sudo, check, capture_output, missing, environ>>

(***************************************************************************)
(* Environments map a variable name to None (unset) or Some(value).        *)
(***************************************************************************)
EnvNames == {"PATH", "DEBIAN_FRONTEND", "APT_LISTCHANGES_FRONTEND"}

\* the environment the engine was started in
Ambient ==
  [name \in EnvNames |->
     IF name = "PATH" THEN Some("/usr/bin")
     ELSE IF name = "DEBIAN_FRONTEND" THEN Some("dialog")
     ELSE None]

\* no environment built yet
NoEnv == [name \in EnvNames |-> None]

\* lines 225-228: env = os.environ.copy(), plus the two frontend variables
\* when is_apt_command
child_environment(ambient, is_apt) ==
  IF is_apt
  THEN [ambient EXCEPT !["DEBIAN_FRONTEND"] = Some("noninteractive"),
                       !["APT_LISTCHANGES_FRONTEND"] = Some("none")]
  ELSE ambient

NoExc == [type |-> "none", returncode |-> 0, output |-> None, stderr |-> None]

\* subprocess.CalledProcessError(returncode, cmd, output, stderr)
CalledProcessError(rc, output, stderr) ==
  [type |-> "CalledProcessError", returncode |-> rc, output |-> output, stderr |-> stderr]

\* FileNotFoundError raised by the spawn of a missing executable
FileNotFoundError ==
  [type |-> "FileNotFoundError", returncode |-> 0, output |-> None, stderr |-> None]

Pending ==
  [kind |-> "pending", returncode |-> 0, args |-> <<>>, stdout |-> None,
   message |-> "", suggestion |-> "", url |-> None, command |-> None,
   package |-> None]

\* CompletedProcess that reports exit code 0 whatever the child's code
CompletedProcessZero(argv, rc, stdout) ==
  [Pending EXCEPT !.kind = "result", !.returncode = 0, !.args = argv, !.stdout = stdout]

\* subprocess.CompletedProcess(args, returncode, stdout, None)
CompletedProcess(argv, rc, stdout) ==
  [Pending EXCEPT !.kind = "result", !.returncode = rc, !.args = argv, !.stdout = stdout]

Raised(kind) == [Pending EXCEPT !.kind = kind]

(***************************************************************************)
(* utils/errors.py: the constructors of the error classes.  An optional    *)
(* argument is None or Some(text); Python takes None and "" as false.      *)
(***************************************************************************)
Truthy(opt) == opt # None /\ opt[1] # ""

\* RigError.__init__(message, suggestion), lines 9-12
RigError(kind, message, suggestion) ==
  [Pending EXCEPT !.kind = kind, !.message = message, !.suggestion = suggestion]

\* NetworkError whose suggestion leaves the URL out
NetworkErrorNoUrl(message, url) ==
  [RigError("NetworkError", message,
            "Check your internet connection and try again. ")
     EXCEPT !.url = url]

\* errors.NetworkError(message, url), lines 18-24
NetworkError(message, url) ==
  [RigError("NetworkError", message,
            "Check your internet connection and try again. "
              \o (IF Truthy(url) THEN "URL: " \o url[1] ELSE ""))
     EXCEPT !.url = url]

\* errors.PermissionError(message, command), lines 30-36
PermissionError(message, cmd) ==
  [RigError("PermissionError", message,
            "This operation requires administrator privileges. "
              \o (IF Truthy(cmd) THEN "Try running with sudo: sudo " \o cmd[1]
                                 ELSE "Try running with sudo."))
     EXCEPT !.command = cmd]

\* errors.PackageManagerError(message, package), lines 42-54
PackageManagerError(message, package) ==
  LET suggestion_parts ==
        <<"Try updating package lists: sudo apt update">>
          \o (IF Truthy(package)
              THEN <<"Check if package exists: apt search " \o package[1],
                     "Try installing manually: sudo apt install " \o package[1]>>
              ELSE <<>>)
          \o <<"Check for locked files: sudo killall apt apt-get">>
  IN  [RigError("PackageManagerError", message, join(suggestion_parts, " | "))
         EXCEPT !.package = package]

\* errors.CommandNotFoundError(command), lines 60-64
CommandNotFoundError(cmd) ==
  [RigError("CommandNotFoundError", "Command not found: " \o cmd,
            "Install " \o cmd \o " using your package manager (apt, yum, etc.)")
     EXCEPT !.command = Some(cmd)]

\* no Popen child
NoProcess == [state |-> "none", returncode |-> 0, pending |-> <<>>]

Init ==
  /\ process = NoProcess
  /\ pipe = <<>>
  /\ held = FALSE
  /\ reader = "none"
  /\ results = <<>>
  /\ calls = <<>>
  /\ selected_options = <<>>
  /\ option = 0
  /\ config_file = None
  /\ returned = <<>>
  /\ environ = Ambient
  /\ env = NoEnv
  /\ child_envs = <<>>
  /\ orig \in Vectors
  /\ sudo \in BOOLEAN
  /\ check \in BOOLEAN
  /\ capture_output \in BOOLEAN
  /\ missing \in BOOLEAN
  /\ heap = [caller |-> orig, local |-> <<>>]
  /\ command = "caller"
  /\ pc = "start"
  /\ probes = <<>>
  /\ console = <<>>
  /\ log = <<>>
  /\ is_apt_command = FALSE
  /\ cmd_str = ""
  /\ strategy = "none"
  /\ net_uses = <<>>
  /\ spawned = <<>>
  /\ exits = <<>>
  /\ drained = <<>>
  /\ attempt = 0
  /\ sleeps = <<>>
  /\ last_exception = NoExc
  /\ exc = NoExc
  /\ outcome = Pending

(***************************************************************************)
(* run() lines 161-184: elevation.                                         *)
(***************************************************************************)
PasswordNotice == "sudo password required - You may be prompted for your password."
StuckNotice == "If the command appears stuck, enter your sudo password in the terminal."

\* sudo is False: the block is skipped
NoElevation ==
  /\ pc = "start"
  /\ ~sudo
  /\ pc' = "normalize"
  /\ UNCHANGED <<shell, setup, env, child_envs, stream, drained, heap, command, args, probes, console, log, is_apt_command, cmd_str,
                 strategy, net_uses, spawned, exits, attempt, sleeps,
                 last_exception, exc, outcome>>

\* the probes a call of _check_sudo_available makes: `which sudo` runs only
\* when `sudo -n true` returned a non-zero code
CheckProbes == {<<p1>> : p1 \in ProbeOutcomes \ {"rcfail"}}
                 \cup {<<"rcfail", p2>> : p2 \in ProbeOutcomes}

CheckResult(ps) == check_sudo_available(ps[1], IF Len(ps) > 1 THEN ps[2] ELSE "rc0")

\* lines 163-167: _check_sudo_available() is False, RuntimeError is raised
ElevationUnavailable ==
  /\ pc = "start"
  /\ sudo
  /\ \E ps \in CheckProbes :
        /\ ~CheckResult(ps)
        /\ probes' = ps
  /\ outcome' = Raised("RuntimeError")
  /\ pc' = "done"
  /\ UNCHANGED <<shell, setup, env, child_envs, stream, drained, heap, command, args, console, log, is_apt_command, cmd_str,
                 strategy, net_uses, spawned, exits, attempt, sleeps,
                 last_exception, exc>>

\* lines 170-174 raise: the second `sudo -n true` (timeout 2s) is outside the
\* try block, so its TimeoutExpired or FileNotFoundError leaves run() as it is
ElevationProbeRaises ==
  /\ pc = "start"
  /\ sudo
  /\ \E ps \in CheckProbes, p3 \in {"timeout", "fnf"} :
        /\ CheckResult(ps)
        /\ probes' = Append(ps, p3)
        /\ outcome' = Raised(IF p3 = "timeout" THEN "TimeoutExpired" ELSE "FileNotFoundError")
  /\ pc' = "done"
  /\ UNCHANGED <<shell, setup, env, child_envs, stream, drained, heap, command, args, console, log, is_apt_command, cmd_str,
                 strategy, net_uses, spawned, exits, attempt, sleeps,
                 last_exception, exc>>

\* ElevationResolved that prints no notice whatever the probe of line 170 says
ElevationResolvedSilent ==
  /\ pc = "start"
  /\ sudo
  /\ \E ps \in CheckProbes, p3 \in {"rc0", "rcfail"} :
        /\ CheckResult(ps)
        /\ probes' = Append(ps, p3)
  /\ heap' = [heap EXCEPT !["local"] = <<"sudo">> \o heap[command]]
  /\ command' = "local"
  /\ pc' = "normalize"
  /\ UNCHANGED <<shell, setup, env, child_envs, stream, drained, args, console, log, is_apt_command, cmd_str, strategy,
                 net_uses, spawned, exits, attempt, sleeps, last_exception, exc, outcome>>

\* lines 163-184: sudo is usable; notice when it needs a password; prepend it
ElevationResolved ==
  /\ pc = "start"
  /\ sudo
  /\ \E ps \in CheckProbes, p3 \in {"rc0", "rcfail"} :
        /\ CheckResult(ps)
        /\ probes' = Append(ps, p3)
        /\ console' = IF p3 # "rc0"
                      THEN console \o <<PasswordNotice, StuckNotice>>
                      ELSE console
  /\ heap' = [heap EXCEPT !["local"] = <<"sudo">> \o heap[command]]
  /\ command' = "local"
  /\ pc' = "normalize"
  /\ UNCHANGED <<shell, setup, env, child_envs, stream, drained, args, log, is_apt_command, cmd_str, strategy, net_uses, spawned,
                 exits, attempt, sleeps, last_exception, exc, outcome>>

(***************************************************************************)
(* run() lines 186-228: quiet flags are inserted into the list `command`   *)
(* is bound to, the CMD line is logged, and the children's environment is  *)
(* built.                                                                  *)
(***************************************************************************)
\* NormalizeAndLog with the CMD line written before the quiet flags are inserted
NormalizeAndLogEarly ==
  /\ pc = "normalize"
  /\ LET resolved == normalize(heap[command])
     IN  /\ heap' = [heap EXCEPT ![command] = resolved]
         /\ is_apt_command' = (apt_idx(heap[command]) # NoIdx)
         /\ cmd_str' = join(resolved, " ")
         /\ env' = child_environment(environ, apt_idx(heap[command]) # NoIdx)
         /\ log' = Append(log, [level |-> "info", msg |-> "CMD: " \o join(heap[command], " ")])
  /\ pc' = "dispatch"
  /\ UNCHANGED <<shell, setup, child_envs, stream, drained, command, args, probes, console, strategy, net_uses, spawned, exits,
                 attempt, sleeps, last_exception, exc, outcome>>

NormalizeAndLog ==
  /\ pc = "normalize"
  /\ LET resolved == normalize(heap[command])
     IN  /\ heap' = [heap EXCEPT ![command] = resolved]
         /\ is_apt_command' = (apt_idx(heap[command]) # NoIdx)
         /\ cmd_str' = join(resolved, " ")
         /\ env' = child_environment(environ, apt_idx(heap[command]) # NoIdx)
         /\ log' = Append(log, [level |-> "info", msg |-> "CMD: " \o join(resolved, " ")])
  /\ pc' = "dispatch"
  /\ UNCHANGED <<shell, setup, child_envs, stream, drained, command, args, probes, console, strategy, net_uses, spawned, exits,
                 attempt, sleeps, last_exception, exc, outcome>>

(***************************************************************************)
(* run() lines 239-352: which branch of the try block runs the command.    *)
(* _is_network_command(command) is evaluated on the list as it is now,     *)
(* after the quiet flags were inserted.                                    *)
(***************************************************************************)
SelectStreamed ==
  /\ pc = "dispatch"
  /\ sudo /\ ~capture_output /\ is_apt_command
  /\ strategy' = "streamed"
  /\ pc' = "streamed"
  /\ UNCHANGED <<shell, setup, env, child_envs, stream, drained, heap, command, args, probes, console, log, is_apt_command, cmd_str,
                 net_uses, spawned, exits, attempt, sleeps, last_exception, exc, outcome>>

SelectOtherAlwaysRetry ==
  /\ pc = "dispatch"
  /\ ~(sudo /\ ~capture_output /\ is_apt_command)
  /\ net_uses' = Append(net_uses, is_network_command(heap[command]))
  /\ pc' = "retry"
  /\ strategy' = IF capture_output THEN "captured" ELSE "inherited"
  /\ UNCHANGED <<shell, setup, env, child_envs, stream, drained, heap, command, args, probes, console, log, is_apt_command, cmd_str,
                 spawned, exits, attempt, sleeps, last_exception, exc, outcome>>

SelectOther ==
  /\ pc = "dispatch"
  /\ ~(sudo /\ ~capture_output /\ is_apt_command)
  /\ LET net == is_network_command(heap[command])
     IN  /\ net_uses' = Append(net_uses, net)
         /\ pc' = IF net THEN "retry" ELSE "once"
  /\ strategy' = IF capture_output THEN "captured" ELSE "inherited"
  /\ UNCHANGED <<shell, setup, env, child_envs, stream, drained, heap, command, args, probes, console, log, is_apt_command, cmd_str,
                 spawned, exits, attempt, sleeps, last_exception, exc, outcome>>

(***************************************************************************)
(* What spawning the resolved vector can do on this host.  An unelevated   *)
(* vector whose program is missing cannot be executed (FileNotFoundError). *)
(* An elevated vector executes sudo, which exists; sudo cannot run a       *)
(* missing program and reports a non-zero exit code.  A program that       *)
(* exists may also never exit: Popen.wait() and subprocess.run are called  *)
(* without a timeout, so run() then stays in the call for ever.            *)
(***************************************************************************)
Exited(rc) == [err |-> "none", rc |-> rc]
NotFound == [err |-> "fnf", rc |-> 0]
Hung == [err |-> "hang", rc |-> 0]

SpawnOutcomes ==
  IF missing
  THEN IF sudo THEN {Exited(rc) : rc \in ExitCodes \ {0}} ELSE {NotFound}
  ELSE {Exited(rc) : rc \in ExitCodes} \cup {Hung}

\* the text a child that wrote the lines out produced
RECURSIVE ChildText(_)
ChildText(out) == IF out = <<>> THEN "" ELSE Head(out) \o "\n" \o ChildText(Tail(out))

\* RunException of a run that raises on every exit code when check is set
RunExceptionAlways(o, stdout) ==
  IF o.err = "fnf" THEN FileNotFoundError
  ELSE IF check THEN CalledProcessError(o.rc, stdout, None)
  ELSE NoExc

RunExceptionUnchecked(o, stdout) ==
  IF o.err = "fnf" THEN FileNotFoundError ELSE NoExc

\* subprocess.run(command, check=check, ...): the exception it raises, or NoExc
RunException(o, stdout) ==
  IF o.err = "fnf" THEN FileNotFoundError
  ELSE IF check /\ o.rc # 0 THEN CalledProcessError(o.rc, stdout, None)
  ELSE NoExc

\* stdout of subprocess.run: a pipe when capture_output, inherited otherwise
RunStdout(out) == IF capture_output THEN Some(ChildText(out)) ELSE None

\* the raw lines as they come out of the pipe
RawLines(out) == [i \in 1..Len(out) |-> out[i] \o "\n"]

\* what subprocess.run read from the child: all of it when it holds the pipe
RunDrained(o, out) == IF capture_output /\ o.err # "fnf" THEN RawLines(out) ELSE <<>>

\* lines 313-319, 330-337, 347-352: a command that is not network-classified
RunOnce ==
  /\ pc = "once"
  /\ \E o \in SpawnOutcomes, out \in Outputs :
        LET e == RunException(o, RunStdout(out))
        IN  /\ spawned' = Append(spawned, heap[command])
            /\ child_envs' = Append(child_envs, env)
            /\ exits' = Append(exits, o)
            /\ drained' = RunDrained(o, out)
            /\ IF o = Hung
               THEN \* subprocess.run does not return
                    /\ pc' = "blocked"
                    /\ UNCHANGED <<exc, outcome>>
               ELSE IF e # NoExc
               THEN /\ exc' = e
                    /\ pc' = "except"
                    /\ UNCHANGED outcome
               ELSE /\ outcome' = CompletedProcess(heap[command], o.rc, RunStdout(out))
                    /\ pc' = "done"
                    /\ UNCHANGED exc
  /\ UNCHANGED <<shell, setup, env, stream, heap, command, args, probes, console, log, is_apt_command, cmd_str,
                 strategy, net_uses, attempt, sleeps, last_exception>>

(***************************************************************************)
(* retry_on_network_error.wrapper around _run_with_retry, lines 31-56 and  *)
(* 110-135: one iteration of the for loop up to the sleep.                 *)
(***************************************************************************)
\* 2 ** n
RECURSIVE Pow2(_)
Pow2(n) == IF n = 0 THEN 1 ELSE 2 * Pow2(n - 1)

\* delay without the doubling
delay_flat(n) == backoff_factor

\* line 49
delay(n) == backoff_factor * Pow2(n)

\* line 41: isinstance(e, (CommandNotFoundError, PermissionError)), both names
\* bound to the classes of utils.errors
never_retried(e) == e.type \in {"CommandNotFoundError", "PermissionError"}

\* line 50: the text printed; delay is a float and prints as 1.0, 2.0
RetryNotice(n) ==
  "Network operation failed, retrying in " \o ToString(delay(n)) \o ".0s... ("
     \o ToString(n + 1) \o "/" \o ToString(max_attempts) \o ")"

RetryAttempt ==
  /\ pc = "retry"
  /\ attempt < max_attempts
  /\ \E o \in SpawnOutcomes, out \in Outputs :
        LET e == RunException(o, RunStdout(out))
        IN  /\ spawned' = Append(spawned, heap[command])
            /\ child_envs' = Append(child_envs, env)
            /\ exits' = Append(exits, o)
            /\ drained' = RunDrained(o, out)
            /\ IF o = Hung
               THEN \* line 36: func does not return
                    /\ pc' = "blocked"
                    /\ UNCHANGED <<exc, outcome, last_exception, console>>
               ELSE IF e = NoExc
               THEN \* line 36: return func(*args, **kwargs)
                    /\ outcome' = CompletedProcess(heap[command], o.rc, RunStdout(out))
                    /\ pc' = "done"
                    /\ UNCHANGED <<exc, last_exception, console>>
               ELSE /\ last_exception' = e
                    /\ UNCHANGED outcome
                    /\ IF never_retried(e) \/ attempt = max_attempts - 1
                       THEN \* line 42 raise, or line 46 break and line 56 raise
                            /\ exc' = e
                            /\ pc' = "except"
                            /\ UNCHANGED console
                       ELSE \* line 50: the notice, then line 52
                            /\ console' = Append(console, RetryNotice(attempt))
                            /\ pc' = "backoff"
                            /\ UNCHANGED exc
  /\ UNCHANGED <<shell, setup, env, stream, heap, command, args, probes, log, is_apt_command, cmd_str,
                 strategy, net_uses, attempt, sleeps>>

\* line 52: time.sleep(delay), then the next iteration
RetrySleep ==
  /\ pc = "backoff"
  /\ sleeps' = Append(sleeps, delay(attempt))
  /\ attempt' = attempt + 1
  /\ pc' = "retry"
  /\ UNCHANGED <<shell, setup, env, child_envs, stream, drained, heap, command, args, probes, console, log, is_apt_command, cmd_str,
                 strategy, net_uses, spawned, exits, last_exception, exc, outcome>>

(***************************************************************************)
(* run() lines 244-301: the elevated apt command without capture.  The     *)
(* child's merged output is read by read_output on a thread that is joined *)
(* for at most 1s after the child exited, so the lines it has handled by   *)
(* then are a prefix of what the child wrote.                              *)
(***************************************************************************)
Whitespace == {" ", "\n", "\t", "\r"}

\* str.rstrip()
RECURSIVE rstrip(_)
rstrip(s) ==
  IF Len(s) > 0 /\ CharAt(s, Len(s)) \in Whitespace
  THEN rstrip(SubSeq(s, 1, Len(s) - 1))
  ELSE s

CliPhrase == "apt does not have a stable CLI interface"
ErrorWords == {"error", "failed", "warning", "cannot", "unable", "e:"}

\* lines 264-269: the line read_output keeps (None when it skips the line)
kept_line(raw) ==
  LET line == rstrip(raw)
  IN  IF line = "" THEN None
      ELSE IF Contains(lower(line), CliPhrase) THEN None
      ELSE Some(line)

\* lines 273-277: the kept line also goes to error_lines
is_error_line(line) ==
  /\ \E word \in ErrorWords : Contains(lower(line), word)
  /\ ~Contains(lower(line), CliPhrase)

\* output_lines after read_output handled the raw lines
RECURSIVE output_lines(_)
output_lines(raws) ==
  IF raws = <<>> THEN <<>>
  ELSE kept_line(Head(raws)) \o output_lines(Tail(raws))

\* Reverse and error_lines_reversed: error_lines printed last line first
Reverse(seq) == [i \in 1..Len(seq) |-> seq[Len(seq) + 1 - i]]

error_lines_reversed(raws) == Reverse(SelectSeq(output_lines(raws), is_error_line))

\* error_lines after read_output handled the raw lines
error_lines(raws) == SelectSeq(output_lines(raws), is_error_line)

\* InfoEntries of a reader that logs nothing
InfoEntriesNone(lines) == <<>>

\* line 271: self.logger.log("info", line) for each kept line
InfoEntries(lines) == [i \in 1..Len(lines) |-> [level |-> "info", msg |-> lines[i]]]

RunStreamed ==
  /\ pc = "streamed"
  /\ \E o \in SpawnOutcomes, out \in Outputs :
       \E handled \in 0..Len(out) :
        LET raws == SubSeq(RawLines(out), 1, handled)
            stdout == Some(join(output_lines(raws), "\n"))
        IN  /\ spawned' = Append(spawned, heap[command])
            /\ child_envs' = Append(child_envs, env)
            /\ exits' = Append(exits, o)
            /\ IF o.err = "fnf"
               THEN \* Popen raises before anything is read
                    /\ exc' = FileNotFoundError
                    /\ pc' = "except"
                    /\ drained' = <<>>
                    /\ UNCHANGED <<log, console, outcome>>
               ELSE IF o = Hung
               THEN \* line 284: process.wait() does not return
                    /\ log' = log \o InfoEntries(output_lines(raws))
                    /\ drained' = raws
                    /\ pc' = "blocked"
                    /\ UNCHANGED <<console, exc, outcome>>
               ELSE /\ log' = log \o InfoEntries(output_lines(raws))
                    /\ drained' = raws
                    /\ console' = console \o error_lines(raws)
                    /\ IF check /\ o.rc # 0
                       THEN \* line 301
                            /\ exc' = CalledProcessError(o.rc, stdout, None)
                            /\ pc' = "except"
                            /\ UNCHANGED outcome
                       ELSE /\ outcome' = CompletedProcess(heap[command], o.rc, stdout)
                            /\ pc' = "done"
                            /\ UNCHANGED exc
  /\ UNCHANGED <<shell, setup, env, stream, heap, command, args, probes, is_apt_command, cmd_str, strategy,
                 net_uses, attempt, sleeps, last_exception>>

(***************************************************************************)
(* run() lines 354-396: the except clauses.  No target is run with a       *)
(* timeout, so TimeoutExpired does not reach them and the clause of lines  *)
(* 354-363 has no action.                                                  *)
(***************************************************************************)
\* GenericMessage without the captured output
GenericMessageBare(e) ==
  "Command failed: " \o cmd_str \o "\nExit code: " \o ToString(e.returncode)

GenericMessage(e) ==
  "Command failed: " \o cmd_str \o "\nExit code: " \o ToString(e.returncode)
    \o (IF OrEmpty(e.output) # "" THEN "\nOutput: " \o OrEmpty(e.output) ELSE "")
    \o (IF OrEmpty(e.stderr) # "" THEN "\nStderr: " \o OrEmpty(e.stderr) ELSE "")

\* lines 364-390
HandleCalledProcessError ==
  /\ pc = "except"
  /\ exc.type = "CalledProcessError"
  /\ LET net == is_network_command(heap[command])
     IN  /\ net_uses' = Append(net_uses, net)
         /\ IF net
            THEN /\ outcome' = NetworkError("Network request failed: " \o cmd_str
                                              \o " (exit code: "
                                              \o ToString(exc.returncode) \o ")",
                                            first_url(heap[command]))
                 /\ UNCHANGED log
            ELSE IF sudo /\ exc.returncode = 1
            THEN /\ outcome' = PermissionError("Permission denied running: " \o cmd_str,
                                               Some(cmd_str))
                 /\ UNCHANGED log
            ELSE IF Contains(lower(cmd_str), "apt")
                      /\ Contains(lower(OrEmpty(exc.stderr)), "lock")
            THEN /\ outcome' = PackageManagerError("Package manager is locked: " \o cmd_str,
                                                   None)
                 /\ UNCHANGED log
            ELSE /\ log' = Append(log, [level |-> "error", msg |-> GenericMessage(exc)])
                 /\ outcome' = [Raised("CalledProcessError") EXCEPT
                                   !.returncode = exc.returncode,
                                   !.args = heap[command],
                                   !.stdout = exc.output]
  /\ pc' = "done"
  /\ UNCHANGED <<shell, setup, env, child_envs, stream, drained, heap, command, args, probes, console, is_apt_command, cmd_str,
                 strategy, spawned, exits, attempt, sleeps, last_exception, exc>>

\* lines 391-392
HandleFileNotFoundError ==
  /\ pc = "except"
  /\ exc.type = "FileNotFoundError"
  /\ outcome' = CommandNotFoundError(At(heap[command], 0))
  /\ pc' = "done"
  /\ UNCHANGED <<shell, setup, env, child_envs, stream, drained, heap, command, args, probes, console, log, is_apt_command, cmd_str,
                 strategy, net_uses, spawned, exits, attempt, sleeps,
                 last_exception, exc>>

Next ==
  \/ NoElevation
  \/ ElevationUnavailable
  \/ ElevationProbeRaises
  \/ ElevationResolved
  \/ NormalizeAndLog
  \/ SelectStreamed
  \/ SelectOther
  \/ RunOnce
  \/ RetryAttempt
  \/ RetrySleep
  \/ RunStreamed
  \/ HandleCalledProcessError
  \/ HandleFileNotFoundError

Spec == Init /\ [][Next]_vars

(***************************************************************************)
(* utils/errors.py on its own: each step constructs one error from a       *)
(* message and an optional URL, command or package.                        *)
(***************************************************************************)
ErrMessages ==
  {"", "Network operation timed out: curl https://x",
   "Permission denied running: sudo apt install gh",
   "Package manager is locked: sudo apt update"}
ErrTexts == Tokens \cup {""}
ErrOptions == {None} \cup {Some(t) : t \in ErrTexts}

ErrInit ==
  /\ process = NoProcess
  /\ pipe = <<>>
  /\ held = FALSE
  /\ reader = "none"
  /\ results = <<>>
  /\ calls = <<>>
  /\ selected_options = <<>>
  /\ option = 0
  /\ config_file = None
  /\ returned = <<>>
  /\ environ = Ambient
  /\ env = NoEnv
  /\ child_envs = <<>>
  /\ orig = <<>>
  /\ sudo = FALSE
  /\ check = FALSE
  /\ capture_output = FALSE
  /\ missing = FALSE
  /\ heap = [caller |-> <<>>, local |-> <<>>]
  /\ command = "caller"
  /\ pc = "errors"
  /\ probes = <<>>
  /\ console = <<>>
  /\ log = <<>>
  /\ is_apt_command = FALSE
  /\ cmd_str = ""
  /\ strategy = "none"
  /\ net_uses = <<>>
  /\ spawned = <<>>
  /\ exits = <<>>
  /\ drained = <<>>
  /\ attempt = 0
  /\ sleeps = <<>>
  /\ last_exception = NoExc
  /\ exc = NoExc
  /\ outcome = Pending

ConstructNetworkError ==
  /\ pc = "errors"
  /\ \E message \in ErrMessages, url \in ErrOptions :
        outcome' = NetworkError(message, url)
  /\ UNCHANGED <<shell, setup, env, child_envs, stream, heap, command, args, pc, probes, console, log, is_apt_command,
                 cmd_str, strategy, net_uses, spawned, exits, drained, attempt,
                 sleeps, last_exception, exc>>

ConstructPermissionError ==
  /\ pc = "errors"
  /\ \E message \in ErrMessages, cmd \in ErrOptions :
        outcome' = PermissionError(message, cmd)
  /\ UNCHANGED <<shell, setup, env, child_envs, stream, heap, command, args, pc, probes, console, log, is_apt_command,
                 cmd_str, strategy, net_uses, spawned, exits, drained, attempt,
                 sleeps, last_exception, exc>>

ConstructPackageManagerError ==
  /\ pc = "errors"
  /\ \E message \in ErrMessages, package \in ErrOptions :
        outcome' = PackageManagerError(message, package)
  /\ UNCHANGED <<shell, setup, env, child_envs, stream, heap, command, args, pc, probes, console, log, is_apt_command,
                 cmd_str, strategy, net_uses, spawned, exits, drained, attempt,
                 sleeps, last_exception, exc>>

ConstructCommandNotFoundError ==
  /\ pc = "errors"
  /\ \E cmd \in ErrTexts :
        outcome' = CommandNotFoundError(cmd)
  /\ UNCHANGED <<shell, setup, env, child_envs, stream, heap, command, args, pc, probes, console, log, is_apt_command,
                 cmd_str, strategy, net_uses, spawned, exits, drained, attempt,
                 sleeps, last_exception, exc>>

ErrNext ==
  \/ ConstructNetworkError
  \/ ConstructPermissionError
  \/ ConstructPackageManagerError
  \/ ConstructCommandNotFoundError

ErrorsSpec == ErrInit /\ [][ErrNext]_vars

(***************************************************************************)
(* The streamed branch, run() lines 248-301, step by step: the child, the  *)
(* read_output thread and the main thread interleave.  The behaviour       *)
(* starts when Popen has returned in a call run(orig, sudo=True) with      *)
(* passwordless sudo, and goes on after the call has ended, up to the CMD  *)
(* line of the next call.                                                  *)
(***************************************************************************)
PipeCapacity == 1

StreamInit ==
  /\ orig \in {GithubCliInstall, BootstrapInstall}
  /\ sudo = TRUE
  /\ check \in BOOLEAN
  /\ capture_output = FALSE
  /\ missing = FALSE
  /\ heap = [caller |-> orig, local |-> normalize(<<"sudo">> \o orig)]
  /\ command = "local"
  /\ pc = "popen"
  /\ probes = <<"rc0", "rc0">>
  /\ console = <<>>
  /\ log = <<[level |-> "info", msg |-> "CMD: " \o join(heap[command], " ")]>>
  /\ is_apt_command = TRUE
  /\ cmd_str = join(heap[command], " ")
  /\ strategy = "streamed"
  /\ net_uses = <<>>
  /\ spawned = <<heap[command]>>
  /\ exits = <<>>
  /\ drained = <<>>
  /\ attempt = 0
  /\ sleeps = <<>>
  /\ last_exception = NoExc
  /\ exc = NoExc
  /\ outcome = Pending
  /\ \E out \in Outputs :
        process = [state |-> "running", returncode |-> 0, pending |-> out]
  /\ pipe = <<>>
  /\ held \in BOOLEAN
  /\ reader = "none"
  /\ results = <<>>
  /\ calls = <<>>
  /\ selected_options = <<>>
  /\ option = 0
  /\ config_file = None
  /\ returned = <<>>
  /\ environ = Ambient
  /\ env = child_environment(environ, TRUE)
  /\ child_envs = <<env>>

\* the child, or the descendant that holds the pipe after the child exited,
\* writes its next line; the write blocks while the pipe is full
Writes ==
  /\ process.state = "running" \/ (process.state = "exited" /\ held)
  /\ process.pending # <<>>
  /\ Len(pipe) < PipeCapacity
  /\ pipe' = Append(pipe, Head(process.pending) \o "\n")
  /\ process' = [process EXCEPT !.pending = Tail(process.pending)]
  /\ UNCHANGED <<shell, setup, env, child_envs, heap, command, args, pc, probes, console, log, is_apt_command,
                 cmd_str, strategy, net_uses, spawned, exits, drained, attempt,
                 sleeps, last_exception, exc, outcome, held, reader>>

\* the child exits: after its last line, or leaving the rest to a descendant
ChildExits ==
  /\ process.state = "running"
  /\ process.pending = <<>> \/ held
  /\ \E rc \in ExitCodes :
        /\ process' = [process EXCEPT !.state = "exited", !.returncode = rc]
        /\ exits' = Append(exits, Exited(rc))
  /\ UNCHANGED <<shell, setup, env, child_envs, heap, command, args, pc, probes, console, log, is_apt_command,
                 cmd_str, strategy, net_uses, spawned, drained, attempt, sleeps,
                 last_exception, exc, outcome, pipe, held, reader>>

\* read_output that reads the pipe only once the child has exited
ReaderTakesAfterExit ==
  /\ reader = "running"
  /\ process.state = "exited"
  /\ pipe # <<>>
  /\ drained' = Append(drained, Head(pipe))
  /\ log' = log \o InfoEntries(output_lines(<<Head(pipe)>>))
  /\ pipe' = Tail(pipe)
  /\ UNCHANGED <<shell, setup, env, child_envs, heap, command, args, pc, probes, console, is_apt_command, cmd_str,
                 strategy, net_uses, spawned, exits, attempt, sleeps,
                 last_exception, exc, outcome, process, held, reader>>

\* lines 263-277: one iteration of `for line in process.stdout`
ReaderTakes ==
  /\ reader = "running"
  /\ pipe # <<>>
  /\ drained' = Append(drained, Head(pipe))
  /\ log' = log \o InfoEntries(output_lines(<<Head(pipe)>>))
  /\ pipe' = Tail(pipe)
  /\ UNCHANGED <<shell, setup, env, child_envs, heap, command, args, pc, probes, console, is_apt_command, cmd_str,
                 strategy, net_uses, spawned, exits, attempt, sleeps,
                 last_exception, exc, outcome, process, held, reader>>

\* line 263: end of file, every write end of the pipe is closed
ReaderEnds ==
  /\ reader = "running"
  /\ pipe = <<>>
  /\ process.state = "exited"
  /\ ~held
  /\ reader' = "finished"
  /\ UNCHANGED <<shell, setup, env, child_envs, heap, command, args, pc, probes, console, log, is_apt_command,
                 cmd_str, strategy, net_uses, spawned, exits, drained, attempt,
                 sleeps, last_exception, exc, outcome, process, pipe, held>>

\* lines 280-281: the daemon thread is started
StartReader ==
  /\ pc = "popen"
  /\ reader' = "running"
  /\ pc' = "wait"
  /\ UNCHANGED <<shell, setup, env, child_envs, heap, command, args, probes, console, log, is_apt_command,
                 cmd_str, strategy, net_uses, spawned, exits, drained, attempt,
                 sleeps, last_exception, exc, outcome, process, pipe, held>>

\* line 284: process.wait() returns when the child has exited
WaitReturns ==
  /\ pc = "wait"
  /\ process.state = "exited"
  /\ pc' = "join"
  /\ UNCHANGED <<shell, setup, env, child_envs, heap, command, args, probes, console, log, is_apt_command,
                 cmd_str, strategy, net_uses, spawned, exits, drained, attempt,
                 sleeps, last_exception, exc, outcome, stream>>

\* line 285: join returns because the thread has ended
JoinReturns ==
  /\ pc = "join"
  /\ reader = "finished"
  /\ pc' = "echo"
  /\ UNCHANGED <<shell, setup, env, child_envs, heap, command, args, probes, console, log, is_apt_command,
                 cmd_str, strategy, net_uses, spawned, exits, drained, attempt,
                 sleeps, last_exception, exc, outcome, stream>>

\* join that waits for the thread without a timeout
JoinWaitsForEver ==
  /\ pc = "join"
  /\ reader = "finished"
  /\ pc' = "echo"
  /\ UNCHANGED <<shell, setup, env, child_envs, heap, command, args, probes, console, log, is_apt_command,
                 cmd_str, strategy, net_uses, spawned, exits, drained, attempt,
                 sleeps, last_exception, exc, outcome, stream>>

\* line 285: join(timeout=1) returns after 1s with the thread still running
JoinTimesOut ==
  /\ pc = "join"
  /\ reader # "finished"
  /\ pc' = "echo"
  /\ UNCHANGED <<shell, setup, env, child_envs, heap, command, args, probes, console, log, is_apt_command,
                 cmd_str, strategy, net_uses, spawned, exits, drained, attempt,
                 sleeps, last_exception, exc, outcome, stream>>

\* lines 288-290: the error lines collected so far are printed
EchoErrors ==
  /\ pc = "echo"
  /\ console' = console \o error_lines(drained)
  /\ pc' = "result"
  /\ UNCHANGED <<shell, setup, env, child_envs, heap, command, args, probes, log, is_apt_command, cmd_str,
                 strategy, net_uses, spawned, exits, drained, attempt, sleeps,
                 last_exception, exc, outcome, stream>>

\* lines 293-301: the result is built from the lines collected so far
BuildResult ==
  /\ pc = "result"
  /\ LET stdout == Some(join(output_lines(drained), "\n"))
     IN  IF check /\ process.returncode # 0
         THEN /\ exc' = CalledProcessError(process.returncode, stdout, None)
              /\ pc' = "except"
              /\ UNCHANGED outcome
         ELSE /\ outcome' = CompletedProcess(heap[command], process.returncode, stdout)
              /\ pc' = "done"
              /\ UNCHANGED exc
  /\ UNCHANGED <<shell, setup, env, child_envs, heap, command, args, probes, console, log, is_apt_command,
                 cmd_str, strategy, net_uses, spawned, exits, drained, attempt,
                 sleeps, last_exception, stream>>

IsCmdEntry(entry) == startswith(entry.msg, "CMD: ")

\* lines 218-219 of the next call of run(): its CMD line is logged
LaterCall ==
  /\ pc = "done"
  /\ Len(SelectSeq(log, IsCmdEntry)) < 2
  /\ log' = Append(log, [level |-> "info", msg |-> "CMD: " \o cmd_str])
  /\ UNCHANGED <<shell, setup, env, child_envs, heap, command, args, pc, probes, console, is_apt_command, cmd_str,
                 strategy, net_uses, spawned, exits, drained, attempt, sleeps,
                 last_exception, exc, outcome, stream>>

\* the steps of the thread that called run()
MainSteps ==
  \/ StartReader
  \/ WaitReturns
  \/ JoinReturns
  \/ JoinTimesOut
  \/ EchoErrors
  \/ BuildResult
  \/ HandleCalledProcessError

StreamNext ==
  \/ Writes
  \/ ChildExits
  \/ ReaderTakes
  \/ ReaderEnds
  \/ MainSteps
  \/ LaterCall

StreamSpec == StreamInit /\ [][StreamNext]_vars

\* the main thread runs; nothing is assumed of the reader or of the child
StreamMainFairSpec == StreamSpec /\ WF_vars(MainSteps)

\* the child, the reader thread and the main thread are all scheduled
StreamFairSpec ==
  /\ StreamSpec
  /\ WF_vars(Writes) /\ WF_vars(ChildExits)
  /\ WF_vars(ReaderTakes) /\ WF_vars(ReaderEnds)
  /\ WF_vars(MainSteps)

(***************************************************************************)
(* utils/shell_config.py: add_to_path and update_shell_config.  The file   *)
(* get_shell_config_file picks is one file; it is None while it does not   *)
(* exist.                                                                  *)
(***************************************************************************)
MaxCalls == 3    \* calls of update_shell_config in one behaviour

\* str.endswith
endswith(s, suffix) ==
  Len(s) >= Len(suffix) /\ SubSeq(s, Len(s) - Len(suffix) + 1, Len(s)) = suffix

\* line 94
path_export(path_to_add) == "export PATH=\"" \o path_to_add \o ":$PATH\""

\* lines 100-106
alt_formats(path_to_add) ==
  {"export PATH=\"" \o path_to_add \o ":\\$PATH\"",
   "export PATH=" \o path_to_add \o ":$PATH",
   "export PATH=" \o path_to_add \o ":\\$PATH",
   "PATH=\"" \o path_to_add \o ":$PATH\"",
   "PATH=" \o path_to_add \o ":$PATH"}

\* lines 95 and 108-109: the tests that make add_to_path return False
already_present(content, path_to_add) ==
  \/ Contains(content, path_export(path_to_add))
  \/ \E alt_format \in alt_formats(path_to_add) : Contains(content, alt_format)

\* lines 114-117: the content add_to_path writes back
appended(content, path_to_add) ==
  (IF content # "" /\ ~endswith(content, "\n") THEN content \o "\n" ELSE content)
    \o "\n# Added by rig installer\n" \o path_export(path_to_add) \o "\n"

\* add_to_path that appends without looking for the entry
add_to_path_unguarded(file, path_to_add, writable) ==
  LET content == OrEmpty(file)
  IN  IF writable
      THEN [file |-> Some(appended(content, path_to_add)), ret |-> TRUE]
      ELSE [file |-> file, ret |-> FALSE]

\* add_to_path, lines 86-130: the file it leaves and the value it returns;
\* writable says whether mkdir and write_text succeed or raise OSError
add_to_path(file, path_to_add, writable) ==
  LET content == OrEmpty(file)                       \* lines 88-91
  IN  IF already_present(content, path_to_add)
      THEN [file |-> file, ret |-> FALSE]
      ELSE IF writable
      THEN [file |-> Some(appended(content, path_to_add)), ret |-> TRUE]
      ELSE [file |-> file, ret |-> FALSE]            \* lines 128-130

\* directories update_shell_config is called with (main.py 401 passes the first)
InstallDirs == {".local/bin", "bin"}

\* contents the configuration file can have before the first call
InitialFiles ==
  {None,
   Some(""),
   Some("alias ll='ls -l'"),
   Some("alias ll='ls -l'\n"),
   Some("PATH=$HOME/.local/bin:$PATH\n"),
   Some("# Added by rig installer\nexport PATH=\"$HOME/.local/bin:$PATH\"\n")}

\* the record kept of one call
PathCall(path_to_add, writable, before, r) ==
  [path |-> path_to_add, writable |-> writable, before |-> before,
   after |-> r.file, ret |-> r.ret]

\* update_shell_config(install_dir) as a step on the file, lines 142-169
ShellConfigStep(install_dir, writable) ==
  LET path_entry == "$HOME/" \o install_dir
      r == add_to_path(config_file, path_entry, writable)
  IN  /\ config_file' = r.file
      /\ returned' = Append(returned, PathCall(path_entry, writable, config_file, r))

ShellInit ==
  /\ process = NoProcess
  /\ pipe = <<>>
  /\ held = FALSE
  /\ reader = "none"
  /\ environ = Ambient
  /\ env = NoEnv
  /\ child_envs = <<>>
  /\ orig = <<>>
  /\ sudo = FALSE
  /\ check = FALSE
  /\ capture_output = FALSE
  /\ missing = FALSE
  /\ heap = [caller |-> <<>>, local |-> <<>>]
  /\ command = "caller"
  /\ probes = <<>>
  /\ console = <<>>
  /\ log = <<>>
  /\ is_apt_command = FALSE
  /\ cmd_str = ""
  /\ strategy = "none"
  /\ net_uses = <<>>
  /\ spawned = <<>>
  /\ exits = <<>>
  /\ drained = <<>>
  /\ attempt = 0
  /\ sleeps = <<>>
  /\ last_exception = NoExc
  /\ exc = NoExc
  /\ outcome = Pending
  /\ pc = "shell"
  /\ results = <<>>
  /\ calls = <<>>
  /\ selected_options = <<>>
  /\ option = 0
  /\ config_file \in InitialFiles
  /\ returned = <<>>

update_shell_config ==
  /\ pc = "shell"
  /\ Len(returned) < MaxCalls
  /\ \E install_dir \in InstallDirs, writable \in BOOLEAN :
        ShellConfigStep(install_dir, writable)
  /\ UNCHANGED <<setup, pc, heap, command, args, probes, console, log, is_apt_command,
                 cmd_str, strategy, net_uses, spawned, exits, drained, attempt, sleeps,
                 last_exception, exc, outcome, stream, env, child_envs>>

ShellNext == update_shell_config

ShellSpec == ShellInit /\ [][ShellNext]_vars

(***************************************************************************)
(* SetupManager.run (src/main.py 318-406).  The installers are taken by    *)
(* what a call of one of their methods can do: return or raise.  calls     *)
(* records every call run() makes as <<method, option name, how it ended>>.*)
(* The run ends with update_shell_config(".local/bin").                    *)
(***************************************************************************)
MaxTools == 3    \* installers offered after Bootstrap

\* names of _create_install_options, in its order
OptionNames == <<"Bootstrap", "GitHub CLI", "uv", "Node.js", "Neovim", "nginx">>

install_options == SubSeq(OptionNames, 1, MaxTools + 1)

\* InstallerResult, and how run() came by it
InstallerResult(success, origin) == [success |-> success, origin |-> origin]

\* BootstrapInstaller.install: it returns success, re-raises PackageManagerError
\* or turns any other Exception into one; an interrupt passes through
BootstrapOutcomes == {"success", "RigError", "KeyboardInterrupt"}

\* what install() of another installer can do
InstallOutcomes == {"success", "failure", "RigError", "Exception", "KeyboardInterrupt"}

\* is_installed() returns True or False, or raises
CheckOutcomes == {"installed", "absent", "raises"}

\* every variable of the model that SetupManager.run does not touch
engine == <<heap, command, args, probes, console, log, is_apt_command, cmd_str,
            strategy, net_uses, spawned, exits, drained, attempt, sleeps,
            last_exception, exc, outcome, stream, env, child_envs>>

SetupInit ==
  /\ process = NoProcess
  /\ pipe = <<>>
  /\ held = FALSE
  /\ reader = "none"
  /\ environ = Ambient
  /\ env = NoEnv
  /\ child_envs = <<>>
  /\ orig = <<>>
  /\ sudo = FALSE
  /\ check = FALSE
  /\ capture_output = FALSE
  /\ missing = FALSE
  /\ heap = [caller |-> <<>>, local |-> <<>>]
  /\ command = "caller"
  /\ probes = <<>>
  /\ console = <<>>
  /\ log = <<>>
  /\ is_apt_command = FALSE
  /\ cmd_str = ""
  /\ strategy = "none"
  /\ net_uses = <<>>
  /\ spawned = <<>>
  /\ exits = <<>>
  /\ drained = <<>>
  /\ attempt = 0
  /\ sleeps = <<>>
  /\ last_exception = NoExc
  /\ exc = NoExc
  /\ outcome = Pending
  /\ pc = "bootstrap"
  /\ results = <<>>
  /\ calls = <<>>
  /\ selected_options = <<>>
  /\ option = 0
  /\ config_file \in InitialFiles
  /\ returned = <<>>

\* RunBootstrap that carries on with the other installers when Bootstrap raised
RunBootstrapCarryOn ==
  /\ pc = "bootstrap"
  /\ \E o \in BootstrapOutcomes :
        /\ calls' = Append(calls, <<"install", install_options[1], o>>)
        /\ results' = IF o = "success"
                      THEN Append(results, <<install_options[1], InstallerResult(TRUE, "returned")>>)
                      ELSE results
        /\ pc' = "ask"
        /\ option' = 2
  /\ UNCHANGED <<shell, engine, selected_options>>

\* lines 323-338: Bootstrap is installed outside any try block
RunBootstrap ==
  /\ pc = "bootstrap"
  /\ \E o \in BootstrapOutcomes :
        /\ calls' = Append(calls, <<"install", install_options[1], o>>)
        /\ IF o \in {"success", "failure"}
           THEN /\ results' = Append(results, <<install_options[1],
                                                InstallerResult(o = "success", "returned")>>)
                /\ IF o = "success"
                   THEN pc' = "ask" /\ option' = 2
                   ELSE pc' = "returned" /\ UNCHANGED option    \* line 336
           ELSE /\ pc' = "raised"          \* the exception leaves run()
                /\ UNCHANGED <<results, option>>
  /\ UNCHANGED <<shell, engine, selected_options>>

\* lines 343-352: one round of the loop that asks for each option
AskOption ==
  /\ pc = "ask"
  /\ option <= Len(install_options)
  /\ \E c \in CheckOutcomes, answer \in BOOLEAN :
        LET name == install_options[option]
            checked == Append(calls, <<"is_installed", name, c>>)
        IN  IF c = "raises"
            THEN /\ calls' = checked
                 /\ pc' = "raised"
                 /\ UNCHANGED <<selected_options, option>>
            ELSE IF c = "installed"
            THEN /\ calls' = checked
                 /\ option' = option + 1
                 /\ UNCHANGED <<selected_options, pc>>
            ELSE /\ calls' = Append(checked, <<"ask", name,
                                               IF answer THEN "yes" ELSE "no">>)
                 /\ selected_options' = IF answer THEN Append(selected_options, name)
                                        ELSE selected_options
                 /\ option' = option + 1
                 /\ UNCHANGED pc
  /\ UNCHANGED <<shell, engine, results>>

\* lines 354-360: the loop is over; nothing selected returns
AskDone ==
  /\ pc = "ask"
  /\ option > Len(install_options)
  /\ pc' = IF selected_options = <<>> THEN "returned" ELSE "install"
  /\ option' = 1
  /\ UNCHANGED <<shell, engine, results, calls, selected_options>>

\* InstallOption of a loop that stops at the first installer that raises
InstallOptionStopOnError ==
  /\ pc = "install"
  /\ option <= Len(selected_options)
  /\ \E o \in InstallOutcomes :
        LET name == selected_options[option]
        IN  /\ calls' = Append(calls, <<"install", name, o>>)
            /\ IF o \in {"KeyboardInterrupt", "RigError", "Exception"}
               THEN /\ pc' = "summary"
                    /\ UNCHANGED <<results, option>>
               ELSE /\ results' = Append(results,
                                         <<name, InstallerResult(o = "success", "returned")>>)
                    /\ option' = option + 1
                    /\ UNCHANGED pc
  /\ UNCHANGED <<shell, engine, selected_options>>

\* lines 362-394: one round of the loop that installs the selected options
InstallOption ==
  /\ pc = "install"
  /\ option <= Len(selected_options)
  /\ \E o \in InstallOutcomes :
        LET name == selected_options[option]
        IN  /\ calls' = Append(calls, <<"install", name, o>>)
            /\ IF o = "KeyboardInterrupt"
               THEN /\ pc' = "summary"                      \* break
                    /\ UNCHANGED <<results, option>>
               ELSE /\ results' = Append(results,
                          <<name, IF o \in {"success", "failure"}
                                  THEN InstallerResult(o = "success", "returned")
                                  ELSE InstallerResult(FALSE, o)>>)
                    /\ option' = option + 1
                    /\ UNCHANGED pc
  /\ UNCHANGED <<shell, engine, selected_options>>

\* the loop has gone through every selected option
InstallDone ==
  /\ pc = "install"
  /\ option > Len(selected_options)
  /\ pc' = "summary"
  /\ UNCHANGED <<shell, engine, setup>>

\* lines 396-406: show_summary(), shell configuration, final messages
ShowSummary ==
  /\ pc = "summary"
  /\ calls' = Append(calls, <<"show_summary", "", "shown">>)
  /\ \E writable \in BOOLEAN : ShellConfigStep(".local/bin", writable)
  /\ pc' = "returned"
  /\ UNCHANGED <<engine, results, selected_options, option>>

SetupNext ==
  \/ RunBootstrap
  \/ AskOption
  \/ AskDone
  \/ InstallOption
  \/ InstallDone
  \/ ShowSummary

SetupSpec == SetupInit /\ [][SetupNext]_vars

(***************************************************************************)
(* Properties.                                                             *)
(***************************************************************************)
Done == pc = "done"

\* the program exists, and every target spawned exited with a non-zero code
AllExitsNonZero ==
  /\ ~missing
  /\ exits # <<>>
  /\ \A i \in 1..Len(exits) : exits[i].err = "none" /\ exits[i].rc # 0

HasRetryNotice == \E i \in 1..Len(console) : startswith(console[i], "Network operation failed")

HasCmdLine(prefix) == \E i \in 1..Len(log) : startswith(log[i].msg, prefix)

\* C1: a network-classified command (elevated or not, package manager or not,
\* captured or not) run with check=True that exits non-zero on every attempt
\* is spawned exactly 3 times, with waits of at least 1s and 2s in between.
C1_NetworkFailureSpawnsThrice ==
  (Done /\ check /\ AllExitsNonZero /\ is_network_command(orig))
    => /\ Len(spawned) = 3
       /\ Len(sleeps) = 2
       /\ sleeps[1] >= 1
       /\ sleeps[2] >= 2

\* the failure falls under neither rule that ranks above the lock rule: the
\* command is not network-classified and the exit code is not the 1 that an
\* elevated command reports as a permission failure
BelowNetworkAndPermission ==
  /\ ~is_network_command(orig)
  /\ \A i \in 1..Len(net_uses) : ~net_uses[i]
  /\ exc.returncode # 1

\* C2: an elevated package-manager command run with check=True whose output
\* has a line mentioning "lock" and whose exit code is non-zero fails with
\* PackageManagerError (stated for the failures the network and permission
\* rules, which rank above the lock rule, do not claim).
C2_LockYieldsPackageManagerError ==
  (Done /\ sudo /\ is_apt_command /\ check /\ AllExitsNonZero
        /\ exc.type = "CalledProcessError"
        /\ Contains(lower(OrEmpty(exc.output)), "lock")
        /\ BelowNetworkAndPermission)
    => outcome.kind = "PackageManagerError"

\* C3: whenever the caller's program does not exist, elevated or not, the call
\* fails with CommandNotFoundError carrying the program the caller asked for.
C3_MissingProgramYieldsCommandNotFound ==
  (Done /\ missing /\ spawned # <<>>)
    => /\ outcome.kind = "CommandNotFoundError"
       /\ outcome.command = Some(orig[1])

\* C4: once an attempt failed because the binary is missing, no further target
\* is spawned in the call, nothing is waited for and no retry notice is shown.
C4_NotFoundNeverRetried ==
  (\E i \in 1..Len(exits) : exits[i].err = "fnf")
    => /\ Len(spawned) = 1
       /\ sleeps = <<>>
       /\ ~HasRetryNotice

\* the probes found no elevation mechanism: `sudo -n true` timed out or could
\* not be executed, or it failed and `which sudo` did not succeed either
ElevationUndetected ==
  /\ sudo
  /\ probes # <<>>
  /\ \/ probes[1] \in {"timeout", "fnf"}
     \/ probes[1] = "rcfail" /\ Len(probes) >= 2 /\ probes[2] # "rc0"

\* C5: with sudo=True and no elevation mechanism detected, the call ends with
\* the RuntimeError (no taxonomy error) and the target was never spawned, its
\* CMD line never logged, and nothing waited for or retried.
C5_NoElevationFailsBeforeSpawn ==
  ElevationUndetected
    => /\ Done
       /\ outcome.kind = "RuntimeError"
       /\ spawned = <<>>
       /\ ~HasCmdLine("CMD: ")
       /\ sleeps = <<>>
       /\ attempt = 0

C5_Witness ==
  /\ ElevationUndetected
  /\ probes = <<"rcfail", "rcfail">>
  /\ outcome.kind = "RuntimeError"
  /\ log = <<>>

\* C6: the list the caller passed holds, at every moment of the call, exactly
\* the tokens it held when run() was called.
C6_CallerVectorUnchanged == heap["caller"] = orig

\* C7: every evaluation of the network classification within a call gives the
\* classification of the caller's original vector.
C7_ClassifiedFromOriginal ==
  \A i \in 1..Len(net_uses) : net_uses[i] = is_network_command(orig)

\* the quiet flags were inserted and the CMD line logged
Normalized == cmd_str # ""

\* C8: quiet-mode normalization is idempotent: applying it to the vector it
\* produced changes nothing.
C8_NormalizeIdempotent ==
  Normalized => normalize(heap[command]) = heap[command]

C8_Witness ==
  /\ Normalized
  /\ orig = GithubCliInstall
  /\ heap[command] = <<"sudo", "apt", "-o", StatusFdOption, "install", "-qq", "-y", "gh">>

\* sudo=True, apt update, passwordless sudo, and the one target spawned exited 0
C9_Scenario ==
  /\ Done
  /\ orig = <<"apt", "update">>
  /\ sudo
  /\ probes = <<"rc0", "rc0">>
  /\ exits = <<Exited(0)>>

\* C9 as stated: the scenario returns exit code 0 and the log has a line that
\* begins `CMD: sudo apt -qq update`.
C9_LogBeginsQuietUpdate ==
  C9_Scenario
    => /\ outcome.kind = "result"
       /\ outcome.returncode = 0
       /\ HasCmdLine("CMD: sudo apt -qq update")

\* C9 amended: the scenario returns exit code 0, the vector run is sudo, apt,
\* -qq, -o, APT::Status-Fd=/dev/null, update, and the log has the line
\* `CMD: sudo apt -qq -o APT::Status-Fd=/dev/null update`.
C9_LogBeginsQuietStatusFdUpdate ==
  C9_Scenario
    => /\ outcome.kind = "result"
       /\ outcome.returncode = 0
       /\ outcome.args = <<"sudo", "apt", "-qq", "-o", StatusFdOption, "update">>
       /\ HasCmdLine("CMD: sudo apt -qq -o APT::Status-Fd=/dev/null update")

C9_Witness ==
  /\ C9_Scenario
  /\ outcome.kind = "result"
  /\ spawned = <<outcome.args>>

\* C10: an unelevated network-classified command run with check=True that
\* exits non-zero on all attempts fails with NetworkError after the third
\* attempt, carrying the first argument that starts with http:// or https://.
C10_UnelevatedNetworkFailure ==
  (Done /\ ~sudo /\ check /\ AllExitsNonZero /\ is_network_command(orig))
    => /\ outcome.kind = "NetworkError"
       /\ Len(spawned) = 3
       /\ outcome.url = first_url(orig)

\* C11: a command that is not network-classified is spawned at most once in a
\* call, with no wait and no retry notice, whatever its outcome; an unelevated
\* one whose program is missing ends with CommandNotFoundError carrying that
\* program after exactly one spawn attempt.
C11_NonNetworkSpawnedAtMostOnce ==
  ~is_network_command(orig)
    => /\ Len(spawned) <= 1
       /\ sleeps = <<>>
       /\ ~HasRetryNotice
       /\ (Done /\ ~sudo /\ missing)
            => /\ Len(spawned) = 1
               /\ outcome.kind = "CommandNotFoundError"
               /\ outcome.command = Some(orig[1])

C11_Witness ==
  /\ Done
  /\ ~is_network_command(orig)
  /\ ~sudo
  /\ missing
  /\ exits = <<NotFound>>
  /\ outcome.kind = "CommandNotFoundError"

\* how the target spawned last ended
LastExit == exits[Len(exits)]

\* C12: when the target was spawned and exited, the call returns a result if
\* and only if the final exit code is 0 or check is False, on every branch
\* (streamed, captured, inherited, retried); with check=True and a non-zero
\* final exit code it raises; a returned result carries the child's exit code.
C12_ResultIffZeroOrUnchecked ==
  (Done /\ exits # <<>> /\ LastExit.err = "none")
    => /\ outcome.kind = "result" <=> (LastExit.rc = 0 \/ ~check)
       /\ outcome.kind = "result" => outcome.returncode = LastExit.rc
       /\ outcome.kind # "pending"

C12_Witness ==
  /\ Done
  /\ ~check
  /\ strategy = "streamed"
  /\ exits = <<Exited(100)>>
  /\ outcome.kind = "result"
  /\ outcome.returncode = 100

\* C13: every target spawned by a call with sudo=True has "sudo" as its first
\* token, directly followed by the caller's program.
C13_ElevatedRunsWithPrefix ==
  sudo => \A i \in 1..Len(spawned) :
            /\ Len(spawned[i]) > Len(orig)
            /\ spawned[i][1] = "sudo"
            /\ spawned[i][2] = orig[1]

C13_Witness ==
  /\ sudo
  /\ orig = <<"apt", "update">>
  /\ spawned = <<(<<"sudo", "apt", "-qq", "-o", StatusFdOption, "update">>)>>

\* the log entry of lines 218-219 for a vector
CmdEntry(vector) == [level |-> "info", msg |-> "CMD: " \o join(vector, " ")]

\* C14: the CMD line of the resolved vector (after the sudo prefix and the
\* quiet flags) is in the log before any target is spawned; every target
\* spawned is that vector, and a returned result reports it as args.
C14_CmdLoggedBeforeSpawn ==
  /\ pc \in {"dispatch", "streamed", "once", "retry", "backoff"}
       => log # <<>> /\ log[1] = CmdEntry(heap[command])
  /\ \A i \in 1..Len(spawned) :
       /\ log # <<>> /\ log[1] = CmdEntry(spawned[i])
       /\ spawned[i] = heap[command]
  /\ (spawned # <<>> /\ outcome.kind = "result")
       => outcome.args = spawned[Len(spawned)]

C14_Witness ==
  /\ Done
  /\ orig = BootstrapInstall
  /\ sudo
  /\ outcome.kind = "result"
  /\ Len(spawned) = 1
  /\ log[1] = CmdEntry(outcome.args)
  /\ outcome.args # <<"sudo">> \o orig

\* the text of a raw line without its trailing whitespace
Stripped(raws) == [i \in 1..Len(raws) |-> rstrip(raws[i])]

\* the line is the interface-stability warning of apt, in any letter case
IsCliWarning(line) == Contains(lower(line), lower(CliPhrase))

\* a line with text that is not the interface-stability warning
IsPlainLine(line) == line # "" /\ ~IsCliWarning(line)

IsPlainInfo(entry) == entry.level = "info" /\ IsPlainLine(entry.msg)

\* the messages of the log entries
Messages(entries) == [i \in 1..Len(entries) |-> entries[i].msg]

\* C15 as stated: every line with text read from the child's pipe, on the
\* captured and on the streamed branch, is in the log.
C15_EveryReadLineLogged ==
  strategy \in {"captured", "streamed"}
    => \A i \in 1..Len(drained) :
         rstrip(drained[i]) # ""
           => \E k \in 1..Len(log) : log[k].msg = rstrip(drained[i])

\* C15 amended: on the streamed branch the lines read from the pipe that have
\* text and are not the interface-stability warning are logged at level info,
\* without trailing whitespace, after the CMD line and in the child's order;
\* a captured run that returns a result logs the CMD line only.
C15_StreamedPlainLinesLogged ==
  /\ strategy = "streamed"
       => Messages(SelectSeq(Tail(log), IsPlainInfo))
            = SelectSeq(Stripped(drained), IsPlainLine)
  /\ (strategy = "captured" /\ outcome.kind = "result")
       => log = <<CmdEntry(heap[command])>>

C15_Witness ==
  /\ strategy = "streamed"
  /\ Done
  /\ drained = <<"\n", LockLine \o "\n">>
  /\ Len(log) >= 2
  /\ log[2] = [level |-> "info", msg |-> LockLine]

\* the target spawned last has not completed
TargetHangs == exits # <<>> /\ LastExit = Hung

\* C16: when the target does not complete, the call does not stay in the
\* spawn: it ends with NetworkError if the command is network-classified and
\* with the RuntimeError of a timed out command otherwise.
C16_HangEndsInTimeoutFailure ==
  TargetHangs
    => /\ pc # "blocked"
       /\ Done => outcome.kind = (IF is_network_command(orig)
                                  THEN "NetworkError" ELSE "RuntimeError")

Taxonomy ==
  {"NetworkError", "PermissionError", "PackageManagerError", "CommandNotFoundError"}

\* C17: an error of the taxonomy is what its constructor gives for the message
\* and the optional argument it carries, and its suggestion is not empty; the
\* NetworkError suggestion has the URL when one was given and no URL part
\* otherwise; the PermissionError suggestion has the command when one was
\* given and the plain advice otherwise.
C17_SuggestionsComputed ==
  /\ outcome.kind \in Taxonomy => outcome.suggestion # ""
  /\ outcome.kind = "NetworkError"
       => /\ outcome = NetworkError(outcome.message, outcome.url)
          /\ Truthy(outcome.url)
               => Contains(outcome.suggestion, "URL: " \o outcome.url[1])
          /\ ~Truthy(outcome.url) => ~Contains(outcome.suggestion, "URL: ")
  /\ outcome.kind = "PermissionError"
       => /\ outcome = PermissionError(outcome.message, outcome.command)
          /\ Truthy(outcome.command)
               => Contains(outcome.suggestion, "sudo " \o outcome.command[1])
          /\ ~Truthy(outcome.command)
               => outcome.suggestion
                    = "This operation requires administrator privileges. Try running with sudo."
  /\ outcome.kind = "PackageManagerError"
       => /\ outcome = PackageManagerError(outcome.message, outcome.package)
          /\ Contains(outcome.suggestion, "sudo apt update")
  /\ outcome.kind = "CommandNotFoundError"
       => /\ outcome = CommandNotFoundError(outcome.command[1])
          /\ Contains(outcome.suggestion, "Install " \o outcome.command[1] \o " using")

C17_Witness ==
  /\ pc = "errors"
  /\ outcome.kind = "NetworkError"
  /\ outcome.url = Some("https://x")
  /\ outcome.suggestion = "Check your internet connection and try again. URL: https://x"

\* C18: for a call with check=True whose target exits non-zero every time: a
\* network-classified command ends with NetworkError, also when it is
\* elevated and the exit code is 1; an elevated command that is not
\* network-classified ends with PermissionError carrying the resolved command
\* string when the exit code is 1, and never with PermissionError otherwise.
C18_ClassificationPriority ==
  (Done /\ check /\ AllExitsNonZero)
    => /\ is_network_command(orig) => outcome.kind = "NetworkError"
       /\ (sudo /\ ~is_network_command(orig) /\ LastExit.rc = 1)
            => /\ outcome.kind = "PermissionError"
               /\ outcome.command = Some(cmd_str)
       /\ (sudo /\ ~is_network_command(orig) /\ LastExit.rc # 1)
            => outcome.kind # "PermissionError"

\* C19: a call that spawns the target runs it on exactly one branch: streamed
\* if and only if sudo is set, the caller's program is apt and capture_output
\* is not set; captured if and only if capture_output is set; inherited
\* otherwise.  The child's pipe is read on the streamed and captured branches
\* only, and a result has output text on those branches only.
C19_ExactlyOneStrategy ==
  spawned # <<>>
    => /\ strategy \in {"streamed", "captured", "inherited"}
       /\ strategy = "streamed" <=> (sudo /\ orig[1] = "apt" /\ ~capture_output)
       /\ strategy = "captured" <=> capture_output
       /\ strategy = "inherited" => drained = <<>>
       /\ outcome.kind = "result"
            => (outcome.stdout # None <=> strategy \in {"streamed", "captured"})

C19_Witness ==
  /\ Done
  /\ sudo
  /\ orig = BootstrapInstall
  /\ ~capture_output
  /\ strategy = "streamed"
  /\ outcome.kind = "result"
  /\ outcome.stdout = Some(LockLine)

\* the line has one of the words that mark an error or a warning
HasErrorWord(line) == \E word \in ErrorWords : Contains(lower(line), word)

\* C20: on the streamed branch the interface-stability warning of apt is
\* dropped: it is not printed on the console and is not part of the output
\* text of the result or of the failure, although it has the word "warning";
\* every other line read that has an error or warning word is printed.
C20_BenignWarningDropped ==
  (strategy = "streamed" /\ Done)
    => /\ \A i \in 1..Len(console) : ~IsCliWarning(console[i])
       /\ ~IsCliWarning(OrEmpty(outcome.stdout))
       /\ \A i \in 1..Len(drained) :
            (HasErrorWord(rstrip(drained[i])) /\ ~IsCliWarning(drained[i]))
              => \E k \in 1..Len(console) : console[k] = rstrip(drained[i])

\* a is b with some elements left out
RECURSIVE IsSubsequence(_, _)
IsSubsequence(a, b) ==
  IF a = <<>> THEN TRUE
  ELSE IF b = <<>> THEN FALSE
  ELSE IF Head(a) = Head(b) THEN IsSubsequence(Tail(a), Tail(b))
  ELSE IsSubsequence(a, Tail(b))

IsOutputInfo(entry) == entry.level = "info"

\* the lines of the child in the log: the info entries after the CMD line
LoggedLines == Messages(SelectSeq(Tail(log), IsOutputInfo))

IsNotice(text) == text \in {PasswordNotice, StuckNotice}

IsEcho(text) == ~IsNotice(text)

\* the lines of the child printed on the console
EchoedLines == SelectSeq(console, IsEcho)

\* C21: on the streamed branch the lines are logged in the order the child
\* wrote them, and the lines printed on the console are, in the same order,
\* some of the logged lines.
C21_EchoesInLogOrder ==
  strategy = "streamed"
    => /\ IsSubsequence(LoggedLines, Stripped(drained))
       /\ IsSubsequence(EchoedLines, LoggedLines)

C21_Witness ==
  /\ strategy = "streamed"
  /\ Done
  /\ LoggedLines = <<LockLine, CliWarning>>
  /\ EchoedLines = <<LockLine, CliWarning>>

\* the child is stopped in a write to the full pipe
ChildBlocked ==
  /\ process.state = "running"
  /\ process.pending # <<>>
  /\ Len(pipe) >= PipeCapacity

\* C22: with the reader thread scheduled, a child stopped in a write to the
\* full pipe always gets on, the child exits, and the call then returns or
\* raises.
C22_ChildNeverStuckOnFullPipe ==
  /\ ChildBlocked ~> ~ChildBlocked
  /\ <>(process.state = "exited")
  /\ process.state = "exited" ~> Done

C22_Witness ==
  /\ Done
  /\ process.state = "exited"
  /\ drained = <<"\n", LockLine \o "\n", CliWarning \o "\n">>
  /\ reader = "finished"

\* the output text the call ended with: of the result, or of the failure
EndedOutput == IF outcome.kind = "result" THEN outcome.stdout ELSE exc.output

\* C23: once the child has exited the call returns or raises, whether or not
\* the reader thread ever ends; the output text it ends with is made of the
\* lines the reader had taken when the result was built, so what is still in
\* the pipe or not yet written is not part of it.
C23_ReturnsAfterBoundedJoin ==
  /\ process.state = "exited" ~> Done
  /\ [](Done => \E n \in 0..Len(drained) :
                  EndedOutput = Some(join(output_lines(SubSeq(drained, 1, n)), "\n")))

C23_Witness ==
  /\ Done
  /\ reader = "running"
  /\ held
  /\ pipe = <<LockLine \o "\n">>
  /\ outcome.kind = "result"
  /\ outcome.stdout = Some("")

\* C24: once the call has returned or raised its reader thread logs nothing
\* more: no line of the child is in the log after the CMD line of the next
\* call.
C24_ReaderSilentAfterReturn ==
  \A k \in 2..Len(log) : IsCmdEntry(log[k]) => k = Len(log)

IsRetryNotice(text) == startswith(text, "Network operation failed, retrying in ")

\* the retry notices printed so far
RetryNotices == SelectSeq(console, IsRetryNotice)

\* C25: attempts are sequential: a further target is spawned only when the
\* one before has exited and the wait of 1s * 2^(N-1) after attempt N has been
\* made; a notice is printed before each wait; a call that makes all 3
\* attempts printed exactly 2 notices and made exactly 2 waits.
C25_AttemptsSequentialWithBackoff ==
  /\ Len(spawned) <= max_attempts
  /\ Len(exits) = Len(spawned)
  /\ \A i \in 1..(Len(spawned) - 1) :
       /\ exits[i].err # "hang"
       /\ Len(sleeps) >= i
       /\ sleeps[i] = 1 * Pow2(i - 1)
  /\ Len(sleeps) <= Len(spawned)
  /\ Len(sleeps) <= max_attempts - 1
  /\ Len(RetryNotices) = Len(sleeps) + (IF pc = "backoff" THEN 1 ELSE 0)
  /\ \A i \in 1..Len(RetryNotices) : RetryNotices[i] = RetryNotice(i - 1)
  /\ Len(spawned) = max_attempts => Len(sleeps) = 2 /\ Len(RetryNotices) = 2

C25_Witness ==
  /\ Done
  /\ Len(spawned) = 3
  /\ sleeps = <<1, 2>>
  /\ RetryNotices = <<"Network operation failed, retrying in 1.0s... (1/3)",
                      "Network operation failed, retrying in 2.0s... (2/3)">>

\* the call went through _run_with_retry
ViaRetry == strategy \in {"captured", "inherited"} /\ net_uses # <<>> /\ net_uses[1]

\* the attempt ended without an exception
Succeeded(o) == o.err = "none" /\ (o.rc = 0 \/ ~check)

\* C26: the retry wrapper spawns at most 3 targets; the first attempt that
\* succeeds is the last one, its result is returned and no wait follows it;
\* when the wrapper gives up, the exception it raises is the one of the last
\* attempt, and the NetworkError made of it names the last exit code.
C26_FirstSuccessOrLastFailure ==
  ViaRetry
    => /\ Len(spawned) <= max_attempts
       /\ \A i \in 1..Len(exits) :
            Succeeded(exits[i])
              => /\ i = Len(exits)
                 /\ Done
                 /\ outcome.kind = "result"
                 /\ outcome.returncode = exits[i].rc
                 /\ Len(sleeps) = i - 1
       /\ pc = "except"
            => /\ exc = last_exception
               /\ exc.type = "CalledProcessError"
                    => LastExit.err = "none" /\ exc.returncode = LastExit.rc
       /\ (Done /\ outcome.kind = "NetworkError")
            => Contains(outcome.message,
                        "(exit code: " \o ToString(LastExit.rc) \o ")")

C26_Witness ==
  /\ ViaRetry
  /\ Done
  /\ exits = <<Exited(100), Exited(0)>>
  /\ sleeps = <<1>>
  /\ outcome.kind = "result"
  /\ outcome.returncode = 0

\* C27: with check=False a network-classified command whose target exits
\* with a non-zero code is spawned once: the call returns a result with that
\* code, with no wait and no retry notice, and raises nothing.
C27_UncheckedNetworkRunsOnce ==
  (~check /\ is_network_command(orig) /\ exits # <<>>
          /\ exits[1].err = "none" /\ exits[1].rc # 0)
    => /\ Done
       /\ Len(spawned) = 1
       /\ outcome.kind = "result"
       /\ outcome.returncode = exits[1].rc
       /\ sleeps = <<>>
       /\ ~HasRetryNotice

C27_Witness ==
  /\ Done
  /\ ~check
  /\ ViaRetry
  /\ orig = NeovimDownload
  /\ exits = <<Exited(100)>>
  /\ outcome.kind = "result"
  /\ outcome.returncode = 100

\* the probe of line 170 ran: elevation was asked for and found usable
Probed == sudo /\ pc # "start" /\ outcome.kind # "RuntimeError"

\* outcome of the `sudo -n true` of line 170, the one the notice depends on
PasswordProbe == probes[Len(probes)]

HasPasswordNotice == \E i \in 1..Len(console) : console[i] = PasswordNotice

\* C28: in an elevated call whose elevation mechanism is usable, when the
\* non-interactive probe of run() returns a non-zero code the password notice
\* is the first thing on the console, printed while nothing is spawned yet;
\* when that probe returns 0 the notice is never printed.  A call without
\* elevation prints none.
C28_PasswordNoticeBeforeSpawn ==
  /\ Probed
       => /\ PasswordProbe = "rcfail"
               => /\ Len(console) >= 2
                  /\ console[1] = PasswordNotice
                  /\ console[2] = StuckNotice
          /\ PasswordProbe = "rc0" => ~HasPasswordNotice
  /\ (spawned = <<>> /\ pc # "done") => Len(console) \in {0, 2}
  /\ ~sudo => ~HasPasswordNotice

C28_Witness ==
  /\ Probed
  /\ probes = <<"rcfail", "rc0", "rcfail">>
  /\ console[1] = PasswordNotice
  /\ spawned # <<>>
  /\ Done

C28_WitnessQuiet ==
  /\ Probed
  /\ probes = <<"rc0", "rc0">>
  /\ ~HasPasswordNotice
  /\ spawned # <<>>
  /\ Done

\* C29: every way an elevated call can end is a result, an error of the
\* taxonomy, the bare CalledProcessError, or the RuntimeError that says sudo
\* is not available.
C29_ElevatedEndsClassified ==
  (sudo /\ Done)
    => outcome.kind \in {"result", "CalledProcessError", "RuntimeError"} \cup Taxonomy

\* some line the call captured mentions "lock" and the command mentions apt
MatchesLockRule ==
  /\ Contains(lower(cmd_str), "apt")
  /\ \E i \in 1..Len(drained) : Contains(lower(drained[i]), "lock")

\* the final exit is non-zero under check=True and none of the network,
\* permission and lock rules applies to it
MatchesNoRule ==
  /\ check
  /\ exits # <<>>
  /\ LastExit.err = "none"
  /\ LastExit.rc # 0
  /\ ~is_network_command(orig)
  /\ ~(sudo /\ LastExit.rc = 1)
  /\ ~MatchesLockRule

ErrorEntries == {k \in 1..Len(log) : log[k].level = "error"}

\* C30: a non-zero exit under check=True that matches none of the network,
\* permission and lock rules is re-raised as the bare CalledProcessError: it
\* carries the exit code and the text the call captured, and the last entry
\* of the log is the one error entry, holding the command, the exit code and
\* that text.  No other way of ending writes an error entry.
C30_GenericCarriesCodeAndOutput ==
  /\ (Done /\ MatchesNoRule)
       => /\ outcome.kind = "CalledProcessError"
          /\ outcome.returncode = LastExit.rc
          /\ outcome.args = heap[command]
          /\ strategy = "inherited" <=> outcome.stdout = None
          /\ \A i \in 1..Len(drained) :
               rstrip(drained[i]) # ""
                 => Contains(OrEmpty(outcome.stdout), rstrip(drained[i]))
          /\ ErrorEntries = {Len(log)}
          /\ startswith(log[Len(log)].msg,
                        "Command failed: " \o cmd_str \o "\nExit code: "
                          \o ToString(LastExit.rc))
          /\ OrEmpty(outcome.stdout) # ""
               => Contains(log[Len(log)].msg, "\nOutput: " \o OrEmpty(outcome.stdout))
  /\ (Done /\ outcome.kind # "CalledProcessError") => ErrorEntries = {}

C30_Witness ==
  /\ Done
  /\ MatchesNoRule
  /\ strategy = "streamed"
  /\ LastExit.rc = 100
  /\ drained # <<>>
  /\ outcome.kind = "CalledProcessError"
  /\ Contains(log[Len(log)].msg, "\nOutput: " \o OrEmpty(outcome.stdout))

\* the lines read, stripped, that have text and are not the interface-stability
\* warning, in the order they were read
RECURSIVE PlainLines(_)
PlainLines(raws) ==
  IF raws = <<>> THEN <<>>
  ELSE (IF IsPlainLine(rstrip(Head(raws))) THEN <<rstrip(Head(raws))>> ELSE <<>>)
         \o PlainLines(Tail(raws))

\* a returned result has output text exactly when the strategy was captured or
\* streamed; the streamed text holds the lines with text in the order read
C31_OutputPresentIffCaptured ==
  (Done /\ outcome.kind = "result")
    => /\ outcome.stdout # None <=> strategy \in {"captured", "streamed"}
       /\ strategy = "streamed"
            => /\ ~capture_output
               /\ IsSubsequence(PlainLines(drained), output_lines(drained))
               /\ outcome.stdout = Some(join(output_lines(drained), "\n"))

\* C31: a returned result carries output text exactly when the strategy was
\* captured or streamed; in the streamed strategy, although capture_output is
\* False, the text is the lines read that are non-empty and not dropped (the
\* interface-stability warning is the dropped line), joined in the order the
\* child produced them; in the inherited strategy there is no output.
C31_ResultOutputByStrategy ==
  (Done /\ outcome.kind = "result")
    => /\ outcome.stdout # None <=> strategy \in {"captured", "streamed"}
       /\ strategy = "streamed"
            => /\ ~capture_output
               /\ outcome.stdout = Some(join(PlainLines(drained), "\n"))

\* C32: a call treats its command as a package-manager invocation (quiet
\* flags, streamed strategy) exactly when apt is the program: at position 0,
\* or at position 1 behind the sudo the engine prepended, that is, when the
\* caller's vector begins with apt; an unelevated vector that does not begin
\* with apt is run as the caller gave it.
C32_PackageManagerByPosition ==
  Normalized
    => /\ is_apt_command <=> orig[1] = "apt"
       /\ strategy = "streamed" => orig[1] = "apt"
       /\ (~sudo /\ orig[1] # "apt")
            => /\ heap[command] = orig
               /\ \A i \in 1..Len(spawned) : spawned[i] = orig

\* the caller's program is a download tool
InvokesDownloadTool == orig[1] \in {"curl", "wget"}

\* the caller's command is a package-index refresh
IsIndexRefresh == orig[1] \in {"apt", "apt-get"} /\ InList("update", orig)

\* C33: a command that neither invokes a download tool nor is a package-index
\* refresh (a package install, or a command that has a download tool's name
\* only as an argument or inside a token) is never network-classified, is
\* spawned at most once and does not fail with NetworkError.
C33_NetworkOnlyForDownloadOrRefresh ==
  (~InvokesDownloadTool /\ ~IsIndexRefresh)
    => /\ \A i \in 1..Len(net_uses) : ~net_uses[i]
       /\ Len(spawned) <= 1
       /\ sleeps = <<>>
       /\ outcome.kind # "NetworkError"

\* every target is spawned with the environment that follows is_apt_command
C34_EnvironmentFollowsAptFlag ==
  /\ environ = Ambient
  /\ Len(child_envs) = Len(spawned)
  /\ \A i \in 1..Len(child_envs) :
       child_envs[i] = child_environment(Ambient, is_apt_command)

\* C34: every target of a package-manager invocation (the caller's vector
\* begins with apt) is spawned with the ambient environment plus the two
\* non-interactive frontend variables; every target of any other invocation
\* is spawned with the ambient environment itself; os.environ stays as it was.
C34_EnvironmentByInvocation ==
  /\ environ = Ambient
  /\ Len(child_envs) = Len(spawned)
  /\ \A i \in 1..Len(child_envs) :
       child_envs[i] = child_environment(Ambient, orig[1] = "apt")

\* the calls of the method on the options after Bootstrap, in order
MethodCalls(method) ==
  SelectSeq(calls, LAMBDA c : c[1] = method /\ c[2] # install_options[1])

BootstrapSucceeded ==
  /\ results # <<>>
  /\ results[1] = <<install_options[1], InstallerResult(TRUE, "returned")>>

\* C35: the first thing SetupManager.run calls is Bootstrap's install; an
\* is_installed check, a prompt or an install of another option happens only
\* after Bootstrap returned success; when Bootstrap's install raises or
\* returns a failure, the run is over with no other call made.
C35_BootstrapGatesEverything ==
  /\ calls # <<>> => /\ calls[1][1] = "install"
                     /\ calls[1][2] = "Bootstrap"
  /\ \A i \in 2..Len(calls) :
       /\ calls[i][2] # "Bootstrap"
       /\ calls[1][3] = "success"
       /\ BootstrapSucceeded
  /\ (calls # <<>> /\ calls[1][3] # "success")
       => /\ Len(calls) = 1
          /\ pc \in {"raised", "returned"}
          /\ \A i \in 1..Len(results) : ~results[i][2].success

C35_Witness ==
  /\ calls = <<(<<"install", "Bootstrap", "RigError">>)>>
  /\ pc = "raised"
  /\ results = <<>>

\* the call ended without an operator interrupt
NotInterrupted(c) == c[3] # "KeyboardInterrupt"

\* C36: the installs made are the selected options in selection order, each
\* at most once; every install that ended otherwise than by an interrupt
\* (success, failure result, RigError, any other Exception) added exactly
\* one entry to results, in the same order; the loop stops early only at an
\* interrupt, and when it is over, early or not, the summary is shown before
\* run() returns.
C36_EverySelectedInstalledOnce ==
  LET installs == MethodCalls("install")
      entered  == SelectSeq(installs, NotInterrupted)
  IN  /\ Len(installs) <= Len(selected_options)
      /\ \A i \in 1..Len(installs) : installs[i][2] = selected_options[i]
      /\ \A i \in 1..(Len(installs) - 1) : NotInterrupted(installs[i])
      /\ Len(results) = (IF calls # <<>> /\ calls[1][3] = "success" THEN 1 ELSE 0)
                          + Len(entered)
      /\ \A i \in 1..Len(entered) :
           /\ results[i + 1][1] = entered[i][2]
           /\ results[i + 1][2].success <=> entered[i][3] = "success"
      /\ (pc \in {"summary", "returned"} /\ selected_options # <<>>)
           => /\ installs # <<>>
              /\ Len(installs) = Len(selected_options)
                   \/ ~NotInterrupted(installs[Len(installs)])
      /\ (pc = "returned" /\ selected_options # <<>>)
           => calls[Len(calls)][1] = "show_summary"

C36_Witness ==
  /\ pc = "returned"
  /\ selected_options = <<"GitHub CLI", "uv", "Node.js">>
  /\ MethodCalls("install") = << <<"install", "GitHub CLI", "RigError">>,
                                 <<"install", "uv", "Exception">>,
                                 <<"install", "Node.js", "failure">> >>
  /\ Len(results) = 4

C36_WitnessInterrupted ==
  /\ pc = "returned"
  /\ selected_options = <<"GitHub CLI", "uv">>
  /\ MethodCalls("install") = << <<"install", "GitHub CLI", "KeyboardInterrupt">> >>
  /\ Len(results) = 1
  /\ calls[Len(calls)][1] = "show_summary"

\* how many times needle occurs in hay
Occurrences(hay, needle) ==
  Cardinality({i \in 1..(Len(hay) - Len(needle) + 1) :
                 SubSeq(hay, i, i + Len(needle) - 1) = needle})

\* the file the call found lacks the entry: none of the forms occurs in it
Lacked(c) == ~already_present(OrEmpty(c.before), c.path)

\* an earlier call was made with the same path
IsLaterCall(i) == \E j \in 1..(i - 1) : returned[j].path = returned[i].path

\* an earlier call with the same path returned True
AddedBefore(i) ==
  \E j \in 1..(i - 1) : returned[j].path = returned[i].path /\ returned[j].ret

====
